---- MODULE Spec2Model ----
(***************************************************************************)
(* The two-stage fetch/process pipeline of asyncio_demo.py (concurrent,    *)
(* asyncio + aiohttp) and without_asyncio_demo.py (sequential, requests),  *)
(* run one after the other against the same transport responses.           *)
(*                                                                         *)
(* Variables a_, f_, p_ belong to asyncio_demo.main and its fetch/process  *)
(* tasks; variables s_ belong to without_asyncio_demo.main.  resp is the   *)
(* transport: resp[i] is what the network answers for urls[i].             *)
(***************************************************************************)
EXTENDS Integers, Sequences, FiniteSets, TLC

VARIABLES resp,
          a_pc, a_exc, session, f_pc, f_res, f_exc, f_order, a_results,
          p_pc, p_res, p_order, p_due, a_time, a_processed, a_out,
          s_pc, s_i, s_exc, s_results, s_processed, s_out, s_time

vars == <<resp, a_pc, a_exc, session, f_pc, f_res, f_exc, f_order, a_results,
          p_pc, p_res, p_order, p_due, a_time, a_processed, a_out,
          s_pc, s_i, s_exc, s_results, s_processed, s_out, s_time>>

a_vars == <<a_pc, a_exc, session, f_pc, f_res, f_exc, f_order, a_results,
            p_pc, p_res, p_order, p_due, a_time, a_processed, a_out>>

s_vars == <<s_pc, s_i, s_exc, s_results, s_processed, s_out, s_time>>

-----------------------------------------------------------------------------
(* Bounds and program constants *)

\* longest batch whose responses are drawn freely from Responses
MaxLen == 2

\* the number of entries of the urls list of both main functions
NUrls == 5

\* the simulated work of process_data, sleep(1): one delay period
Delay == 1

-----------------------------------------------------------------------------
(* Python values: the decoded JSON bodies and None *)

PyVal(t, n) == [t |-> t, n |-> n]

PyNone == PyVal("None", 0)

\* the slot of a task that has not returned (not a Python value)
NoValue == PyVal("unset", 0)

\* a JSON document as sent by the server; n is its number of members,
\* characters, or its numeric value
Json(t, n) == [t |-> t, n |-> n]

Malformed == Json("malformed", 0)

\* response.json(): json.loads of a well-formed document
JsonLoads(doc) ==
    CASE doc.t = "object" -> PyVal("dict", doc.n)
      [] doc.t = "array"  -> PyVal("list", doc.n)
      [] doc.t = "string" -> PyVal("str", doc.n)
      [] doc.t = "number" -> PyVal("int", doc.n)
      [] doc.t = "true"   -> PyVal("bool", 1)
      [] doc.t = "false"  -> PyVal("bool", 0)
      [] doc.t = "null"   -> PyNone

\* bool(data), the test of `if data:`
Truthy(v) ==
    CASE v.t \in {"dict", "list", "str"} -> v.n > 0
      [] v.t = "int"  -> v.n # 0
      [] v.t = "bool" -> v.n = 1
      [] OTHER        -> FALSE

\* whether len(data) is defined (otherwise it raises TypeError)
HasLen(v) == v.t \in {"dict", "list", "str"}

PyLen(v) == v.n

-----------------------------------------------------------------------------
(* The transport: what the network answers for one identifier *)

Http(status, ctype, body) ==
    [kind |-> "http", status |-> status, ctype |-> ctype, body |-> body]

ConnFail == [kind |-> "connfail", status |-> 0, ctype |-> "", body |-> Malformed]

Timeout == [kind |-> "timeout", status |-> 0, ctype |-> "", body |-> Malformed]

Ok(body) == Http(200, "application/json", body)

NotFound == Http(404, "application/json", Json("object", 0))

Responses ==
    { Ok(Json("object", 0)), Ok(Json("object", 2)), Ok(Json("number", 7)),
      Ok(Json("array", 1)), Ok(Json("string", 3)),
      Ok(Json("true", 1)), Ok(Json("false", 0)),
      Ok(Json("null", 0)), Ok(Malformed),
      Http(200, "text/html", Json("object", 2)),
      NotFound, ConnFail, Timeout }

\* the end-to-end scenario: bodies of sizes 10, 20, 0, 5 and one 404,
\* the 404 placed at position k
ScenarioSizes == <<10, 20, 0, 5>>

Scenario404(k) ==
    [i \in 1..NUrls |->
        IF i = k THEN NotFound
        ELSE Ok(Json("object", ScenarioSizes[IF i < k THEN i ELSE i - 1]))]

AllTimeout == [i \in 1..NUrls |-> Timeout]

\* the five todos urls of main as the service answers them: one JSON
\* object of four members each
Todos == [i \in 1..NUrls |-> Ok(Json("object", 4))]

Batches ==
    UNION {[1..n -> Responses] : n \in 0..MaxLen}
      \cup {Scenario404(k) : k \in 1..NUrls}
      \cup {AllTimeout, Todos}

N == Len(resp)

Idx == 1..N

-----------------------------------------------------------------------------
(* Output lines (print) *)

Line(tag, i, n, txt, val) ==
    [tag |-> tag, i |-> i, n |-> n, txt |-> txt, val |-> val]

\* the report of both main functions: the fetched values, the processed
\* values and the total time
ReportLines(results, processed) ==
    <<Line("Fetched data:", 0, 0, "", NoValue)>>
      \o [i \in 1..Len(results) |-> Line("URL", i, 0, "", results[i])]
      \o <<Line("Processed data:", 0, 0, "", NoValue)>>
      \o [i \in 1..Len(processed) |-> Line("URL Length", i, processed[i], "", NoValue)]
      \o <<Line("Total time taken", 0, 0, "", NoValue)>>

-----------------------------------------------------------------------------
(* fetch_data of asyncio_demo.py *)

\* the exceptions `session.get(url)` raises for a response
AioGetRaises(r) ==
    CASE r.kind = "connfail" -> {"ClientConnectorError"}
      [] r.kind = "timeout"  -> {"ServerTimeoutError", "TimeoutError"}
      [] OTHER               -> {}

\* the exceptions `await response.json()` raises for a 200 response
AioJsonRaises(r) ==
    IF r.ctype # "application/json" THEN {"ContentTypeError"}
    ELSE IF r.body = Malformed THEN {"JSONDecodeError"}
    ELSE {}

\* a status test that takes every status below 500 for a success
AioStatusNotServerError(r) == r.status < 500

\* `if response.status == 200`
AioStatusOk(r) == r.status = 200

\* `except aiohttp.ClientError`: the classes the handler catches
IsClientError(e) ==
    e \in {"ClientConnectorError", "ServerTimeoutError", "ContentTypeError"}

\* task i ends by `return v`
FetchReturns(i, v) ==
    /\ f_pc' = [f_pc EXCEPT ![i] = "done"]
    /\ f_res' = [f_res EXCEPT ![i] = v]
    /\ f_order' = Append(f_order, i)
    /\ UNCHANGED f_exc

\* an exception of class e at an await of task i: caught (print, return
\* None) when it is a ClientError, otherwise it leaves fetch_data
FetchExcept(i, e) ==
    IF IsClientError(e)
    THEN /\ FetchReturns(i, PyNone)
         /\ a_out' = Append(a_out, Line("Client error", i, 0, e, NoValue))
    ELSE /\ f_pc' = [f_pc EXCEPT ![i] = "raised"]
         /\ f_exc' = [f_exc EXCEPT ![i] = e]
         /\ f_order' = Append(f_order, i)
         /\ UNCHANGED <<f_res, a_out>>

\* main up to the first gather: the session is opened, one fetch task per
\* url is created and scheduled.  The two programs are separate processes
\* that share nothing but the transport; the comparison runs the baseline
\* to its end first and then the concurrent variant.
AStart ==
    /\ a_pc = "start"
    /\ s_pc \in {"done", "raised"}
    /\ a_pc' = "gather_fetch"
    /\ session' = "open"
    /\ f_pc' = [i \in Idx |-> "ready"]
    /\ UNCHANGED <<a_exc, f_res, f_exc, f_order, a_results, p_pc, p_res, p_order, a_processed, a_out>>
    /\ UNCHANGED <<resp, s_vars, p_due, a_time>>

\* task i runs to its first suspension: the request is issued
FetchStart(i) ==
    /\ a_pc = "gather_fetch"
    /\ f_pc[i] = "ready"
    /\ f_pc' = [f_pc EXCEPT ![i] = "get"]
    /\ UNCHANGED <<a_pc, a_exc, session, f_res, f_exc, f_order, a_results,
                   p_pc, p_res, p_order, a_processed, a_out>>
    /\ UNCHANGED <<resp, s_vars, p_due, a_time>>

\* `async with session.get(url) as response` resolves for task i
FetchResponse(i) ==
    /\ a_pc = "gather_fetch"
    /\ f_pc[i] = "get"
    /\ IF AioGetRaises(resp[i]) # {}
       THEN \E e \in AioGetRaises(resp[i]) : FetchExcept(i, e)
       ELSE IF AioStatusOk(resp[i])
            THEN /\ f_pc' = [f_pc EXCEPT ![i] = "json"]
                 /\ UNCHANGED <<f_res, f_exc, f_order, a_out>>
            ELSE /\ FetchReturns(i, PyNone)
                 /\ a_out' = Append(a_out,
                                Line("Error", i, resp[i].status, "", NoValue))
    /\ UNCHANGED <<a_pc, a_exc, session, a_results, p_pc, p_res, p_order, a_processed>>
    /\ UNCHANGED <<resp, s_vars, p_due, a_time>>

\* `return await response.json()` resolves for task i
FetchJson(i) ==
    /\ a_pc = "gather_fetch"
    /\ f_pc[i] = "json"
    /\ IF AioJsonRaises(resp[i]) # {}
       THEN \E e \in AioJsonRaises(resp[i]) : FetchExcept(i, e)
       ELSE /\ FetchReturns(i, JsonLoads(resp[i].body))
            /\ UNCHANGED a_out
    /\ UNCHANGED <<a_pc, a_exc, session, a_results, p_pc, p_res, p_order, a_processed>>
    /\ UNCHANGED <<resp, s_vars, p_due, a_time>>

\* a gather that lists the results in the order the tasks completed
GatherInCompletionOrder(res, order) ==
    [k \in 1..Len(res) |-> IF k <= Len(order) THEN res[order[k]] ELSE res[k]]

\* asyncio.gather(*tasks): the list of the tasks' results, in argument
\* order; the order in which the tasks completed plays no part
GatherResults(res, order) == [i \in 1..Len(res) |-> res[i]]

\* a gather that returns as soon as one of its tasks has returned
GatherFirstCompleted(pcs) == \E i \in DOMAIN pcs : pcs[i] = "done"

\* gather returns once every one of its tasks has returned
GatherComplete(pcs) == \A i \in DOMAIN pcs : pcs[i] = "done"

\* the first gather returns: results is assigned and the `async with`
\* block is left, closing the session
FetchJoin ==
    /\ a_pc = "gather_fetch"
    /\ GatherComplete(f_pc)
    /\ a_results' = GatherResults(f_res, f_order)
    /\ session' = "closed"
    /\ a_pc' = "dispatch"
    /\ UNCHANGED <<a_exc, f_pc, f_res, f_exc, f_order, p_pc, p_res, p_order, a_processed, a_out>>
    /\ UNCHANGED <<resp, s_vars, p_due, a_time>>

\* the first gather raises the exception of a fetch task into main: the
\* `async with` block is left, closing the session, and main ends
FetchFail ==
    /\ a_pc = "gather_fetch"
    /\ \E i \in Idx :
         /\ f_pc[i] = "raised"
         /\ a_exc' = f_exc[i]
    /\ session' = "closed"
    /\ a_pc' = "raised"
    /\ UNCHANGED <<f_pc, f_res, f_exc, f_order, a_results, p_pc, p_res, p_order, a_processed, a_out>>
    /\ UNCHANGED <<resp, s_vars, p_due, a_time>>

-----------------------------------------------------------------------------
(* process_data of asyncio_demo.py *)

\* main creates one process_data coroutine per result and the second
\* gather schedules them
ProcessDispatch ==
    /\ a_pc = "dispatch"
    /\ p_pc' = [i \in 1..Len(a_results) |-> "ready"]
    /\ p_res' = [i \in 1..Len(a_results) |-> 0]
    /\ p_due' = [i \in 1..Len(a_results) |-> 0]
    /\ a_pc' = "gather_process"
    /\ UNCHANGED <<a_exc, session, f_pc, f_res, f_exc, f_order, a_results,
                   p_order, a_processed, a_out>>
    /\ UNCHANGED <<resp, s_vars, a_time>>

\* a sleep that starts only when the sleeps begun before it are over
SleepDueSerial(now, dues) ==
    LET latest == CHOOSE d \in {now} \cup {dues[k] : k \in DOMAIN dues} :
                    \A e \in {now} \cup {dues[k] : k \in DOMAIN dues} : e <= d
    IN  latest + Delay

\* `await asyncio.sleep(1)` called at time now: the time at which the task
\* is due to resume, whatever the other tasks' sleeps
SleepDue(now, dues) == now + Delay

\* task i runs `if data:`: it suspends in asyncio.sleep(1), or returns 0
ProcessStart(i) ==
    /\ a_pc = "gather_process"
    /\ p_pc[i] = "ready"
    /\ IF Truthy(a_results[i])
       THEN /\ p_pc' = [p_pc EXCEPT ![i] = "sleep"]
            /\ p_due' = [p_due EXCEPT ![i] = SleepDue(a_time, p_due)]
            /\ UNCHANGED <<p_res, p_order>>
       ELSE /\ p_pc' = [p_pc EXCEPT ![i] = "done"]
            /\ p_res' = [p_res EXCEPT ![i] = 0]
            /\ p_order' = Append(p_order, i)
            /\ UNCHANGED p_due
    /\ UNCHANGED <<a_pc, a_exc, session, f_pc, f_res, f_exc, f_order, a_results,
                   a_processed, a_out>>
    /\ UNCHANGED <<resp, s_vars, a_time>>

\* the sleep of task i is over: `return len(data)`, which raises TypeError
\* for a value without a length
ProcessWake(i) ==
    /\ a_pc = "gather_process"
    /\ p_pc[i] = "sleep"
    /\ p_due[i] <= a_time
    /\ IF HasLen(a_results[i])
       THEN /\ p_pc' = [p_pc EXCEPT ![i] = "done"]
            /\ p_res' = [p_res EXCEPT ![i] = PyLen(a_results[i])]
       ELSE /\ p_pc' = [p_pc EXCEPT ![i] = "raised"]
            /\ UNCHANGED p_res
    /\ p_order' = Append(p_order, i)
    /\ UNCHANGED <<a_pc, a_exc, session, f_pc, f_res, f_exc, f_order, a_results,
                   a_processed, a_out>>
    /\ UNCHANGED <<resp, s_vars, p_due, a_time>>

\* the event loop has nothing to run and waits for the next timer: every
\* task of the second gather has run to its sleep and none is due yet
ATick ==
    /\ a_pc = "gather_process"
    /\ \A i \in DOMAIN p_pc : p_pc[i] # "ready"
    /\ \E i \in DOMAIN p_pc : p_pc[i] = "sleep"
    /\ \A i \in DOMAIN p_pc : p_pc[i] = "sleep" => p_due[i] > a_time
    /\ a_time' = a_time + 1
    /\ UNCHANGED <<a_pc, a_exc, session, f_pc, f_res, f_exc, f_order, a_results,
                   p_pc, p_res, p_order, p_due, a_processed, a_out>>
    /\ UNCHANGED <<resp, s_vars>>

\* a second gather whose tasks took their inputs out of the results list
ProcessJoinConsuming ==
    /\ a_pc = "gather_process"
    /\ GatherComplete(p_pc)
    /\ a_processed' = GatherResults(p_res, p_order)
    /\ a_results' = <<>>
    /\ a_pc' = "report"
    /\ UNCHANGED <<a_exc, session, f_pc, f_res, f_exc, f_order, p_pc, p_res, p_order, a_out>>
    /\ UNCHANGED <<resp, s_vars, p_due, a_time>>

\* the second gather returns: processed_results is assigned
ProcessJoin ==
    /\ a_pc = "gather_process"
    /\ GatherComplete(p_pc)
    /\ a_processed' = GatherResults(p_res, p_order)
    /\ a_pc' = "report"
    /\ UNCHANGED <<a_exc, session, f_pc, f_res, f_exc, f_order, a_results, p_pc, p_res, p_order, a_out>>
    /\ UNCHANGED <<resp, s_vars, p_due, a_time>>

\* the second gather raises the exception of a process task into main
ProcessFail ==
    /\ a_pc = "gather_process"
    /\ \E i \in DOMAIN p_pc : p_pc[i] = "raised"
    /\ a_exc' = "TypeError"
    /\ a_pc' = "raised"
    /\ UNCHANGED <<session, f_pc, f_res, f_exc, f_order, a_results, p_pc, p_res, p_order,
                   a_processed, a_out>>
    /\ UNCHANGED <<resp, s_vars, p_due, a_time>>

\* main prints the report and returns
AReport ==
    /\ a_pc = "report"
    /\ a_out' = a_out \o ReportLines(a_results, a_processed)
    /\ a_pc' = "done"
    /\ UNCHANGED <<a_exc, session, f_pc, f_res, f_exc, f_order, a_results, p_pc, p_res, p_order,
                   a_processed>>
    /\ UNCHANGED <<resp, s_vars, p_due, a_time>>

\* asyncio.run after main has raised: every task that has not finished is
\* cancelled and the exception leaves the program
ACancelAll ==
    /\ a_pc = "raised"
    /\ f_pc' = [i \in DOMAIN f_pc |->
                  IF f_pc[i] \in {"ready", "get", "json"} THEN "cancelled"
                  ELSE f_pc[i]]
    /\ p_pc' = [i \in DOMAIN p_pc |->
                  IF p_pc[i] \in {"ready", "sleep"} THEN "cancelled"
                  ELSE p_pc[i]]
    /\ a_pc' = "failed"
    /\ UNCHANGED <<a_exc, session, f_res, f_exc, f_order, a_results, p_res, p_order, a_processed, a_out>>
    /\ UNCHANGED <<resp, s_vars, p_due, a_time>>

-----------------------------------------------------------------------------
(* without_asyncio_demo.py *)

\* the exceptions `requests.get(url)` raises for a response
ReqGetRaises(r) ==
    CASE r.kind = "connfail" -> {"ConnectionError"}
      [] r.kind = "timeout"  -> {"Timeout"}
      [] OTHER               -> {}

\* the exceptions `response.json()` raises for a 200 response
\* (requests.exceptions.JSONDecodeError; requests does not look at the
\* content type)
ReqJsonRaises(r) ==
    IF r.body = Malformed THEN {"RequestsJSONDecodeError"} ELSE {}

\* `if response.status_code == 200`
ReqStatusOk(r) == r.status = 200

\* `except requests.exceptions.RequestException`
IsRequestException(e) ==
    e \in {"ConnectionError", "Timeout", "RequestsJSONDecodeError"}

\* the ways one call fetch_data(url) can end for a response: a returned
\* value with the line it printed (<<>> or one line), or an exception
ReqFetchEnds(i, r) ==
    LET caught(e) == [raised |-> "", value |-> PyNone,
                      out |-> <<Line("Request error", i, 0, e, NoValue)>>]
        thrown(e) == [raised |-> e, value |-> NoValue, out |-> <<>>]
        handle(E) == {IF IsRequestException(e) THEN caught(e) ELSE thrown(e) : e \in E}
    IN  IF ReqGetRaises(r) # {} THEN handle(ReqGetRaises(r))
        ELSE IF ReqStatusOk(r)
             THEN IF ReqJsonRaises(r) # {} THEN handle(ReqJsonRaises(r))
                  ELSE {[raised |-> "", value |-> JsonLoads(r.body), out |-> <<>>]}
             ELSE {[raised |-> "", value |-> PyNone,
                    out |-> <<Line("Error", i, r.status, "", NoValue)>>]}

\* a loop body that forgets the append
SkipResult(results, data) == results

\* an insertion at the front of the list instead of an append
PrependResult(results, data) == <<data>> \o results

\* `results.append(data)`
AppendResult(results, data) == Append(results, data)

\* the fetch loop takes the next url and calls fetch_data: the request is
\* issued and main blocks in requests.get
SFetchCall ==
    /\ s_pc = "fetch_loop"
    /\ s_i < N
    /\ s_pc' = "get"
    /\ UNCHANGED <<s_i, s_exc, s_results, s_processed, s_out>>
    /\ UNCHANGED <<resp, a_vars, s_time>>

\* requests.get returns or raises; fetch_data runs to its end and its
\* value is appended to results
SFetchReturn ==
    /\ s_pc = "get"
    /\ \E end \in ReqFetchEnds(s_i + 1, resp[s_i + 1]) :
         IF end.raised = ""
         THEN /\ s_results' = AppendResult(s_results, end.value)
              /\ s_out' = s_out \o end.out
              /\ s_i' = s_i + 1
              /\ s_pc' = "fetch_loop"
              /\ UNCHANGED s_exc
         ELSE /\ s_pc' = "raised"
              /\ s_exc' = end.raised
              /\ UNCHANGED <<s_i, s_results, s_out>>
    /\ UNCHANGED s_processed
    /\ UNCHANGED <<resp, a_vars, s_time>>

\* the fetch loop is exhausted: processed_results = []
SFetchEnd ==
    /\ s_pc = "fetch_loop"
    /\ s_i = N
    /\ s_pc' = "process_loop"
    /\ s_i' = 0
    /\ s_processed' = <<>>
    /\ UNCHANGED <<s_exc, s_results, s_out>>
    /\ UNCHANGED <<resp, a_vars, s_time>>

\* the process loop takes the next result and calls process_data: it
\* blocks in time.sleep(1), or returns 0, which is appended
SProcessCall ==
    /\ s_pc = "process_loop"
    /\ s_i < Len(s_results)
    /\ IF Truthy(s_results[s_i + 1])
       THEN /\ s_pc' = "sleep"
            /\ UNCHANGED <<s_i, s_processed>>
       ELSE /\ s_processed' = AppendResult(s_processed, 0)
            /\ s_i' = s_i + 1
            /\ UNCHANGED s_pc
    /\ UNCHANGED <<s_exc, s_results, s_out>>
    /\ UNCHANGED <<resp, a_vars, s_time>>

\* time.sleep(1) is over, one delay period later: `return len(data)` and
\* the append, or TypeError
SProcessWake ==
    /\ s_pc = "sleep"
    /\ IF HasLen(s_results[s_i + 1])
       THEN /\ s_processed' = AppendResult(s_processed, PyLen(s_results[s_i + 1]))
            /\ s_i' = s_i + 1
            /\ s_pc' = "process_loop"
            /\ UNCHANGED s_exc
       ELSE /\ s_pc' = "raised"
            /\ s_exc' = "TypeError"
            /\ UNCHANGED <<s_i, s_processed>>
    /\ s_time' = s_time + Delay
    /\ UNCHANGED <<s_results, s_out>>
    /\ UNCHANGED <<resp, a_vars>>

\* the process loop is exhausted: main prints the report and returns
SReport ==
    /\ s_pc = "process_loop"
    /\ s_i = Len(s_results)
    /\ s_out' = s_out \o ReportLines(s_results, s_processed)
    /\ s_pc' = "done"
    /\ UNCHANGED <<s_i, s_exc, s_results, s_processed>>
    /\ UNCHANGED <<resp, a_vars, s_time>>

-----------------------------------------------------------------------------
(* The two programs, started on the same batch and the same responses *)

Init ==
    /\ resp \in Batches
    /\ a_pc = "start"
    /\ a_exc = ""
    /\ session = "none"
    /\ f_pc = [i \in 1..Len(resp) |-> "none"]
    /\ f_res = [i \in 1..Len(resp) |-> NoValue]
    /\ f_exc = [i \in 1..Len(resp) |-> ""]
    /\ f_order = <<>>
    /\ a_results = <<>>
    /\ p_pc = <<>>
    /\ p_res = <<>>
    /\ p_order = <<>>
    /\ p_due = <<>>
    /\ a_time = 0
    /\ a_processed = <<>>
    /\ a_out = <<>>
    /\ s_pc = "fetch_loop"
    /\ s_i = 0
    /\ s_exc = ""
    /\ s_results = <<>>
    /\ s_processed = <<>>
    /\ s_out = <<>>
    /\ s_time = 0

Next ==
    \/ AStart
    \/ \E i \in Idx : FetchStart(i)
    \/ \E i \in Idx : FetchResponse(i)
    \/ \E i \in Idx : FetchJson(i)
    \/ FetchJoin
    \/ FetchFail
    \/ ProcessDispatch
    \/ \E i \in DOMAIN p_pc : ProcessStart(i)
    \/ \E i \in DOMAIN p_pc : ProcessWake(i)
    \/ ATick
    \/ ProcessJoin
    \/ ProcessFail
    \/ AReport
    \/ ACancelAll
    \/ SFetchCall
    \/ SFetchReturn
    \/ SFetchEnd
    \/ SProcessCall
    \/ SProcessWake
    \/ SReport

Spec == Init /\ [][Next]_vars

-----------------------------------------------------------------------------
(* Properties *)

\* the Fetch Stage of the concurrent variant has returned its list
AFetchReturned ==
    \/ a_pc \in {"dispatch", "gather_process", "report", "done"}
    \/ a_pc \in {"raised", "failed"} /\ a_exc = "TypeError"

\* the Fetch Stage of the sequential variant has returned its list
SFetchReturned ==
    \/ s_pc \in {"process_loop", "sleep", "done"}
    \/ s_pc = "raised" /\ s_exc = "TypeError"

\* the value the concurrent fetch of a response yields when it yields one:
\* the decoded body of a 200 response that is JSON, None otherwise
AioValue(r) ==
    IF r.kind = "http" /\ r.status = 200 /\ r.ctype = "application/json"
       /\ r.body # Malformed
    THEN JsonLoads(r.body) ELSE PyNone

\* the same for the sequential fetch
ReqValue(r) ==
    IF r.kind = "http" /\ r.status = 200 /\ r.body # Malformed
    THEN JsonLoads(r.body) ELSE PyNone

\* the ProcessedResult of a fetched value
Processed(v) == IF Truthy(v) THEN PyLen(v) ELSE 0

\* the tasks listed in order did not complete in index order
OutOfOrder(order) == \E k \in 1..(Len(order) - 1) : order[k] > order[k + 1]

\* C1: whenever the Fetch Stage has returned, in either variant and
\* whatever the order in which the fetches completed, its list has one
\* entry per identifier of the batch and entry i is the outcome of the
\* fetch of identifier i.
C1_FetchOutcomesInBatchOrder ==
    /\ AFetchReturned =>
         /\ Len(a_results) = N
         /\ \A i \in Idx : /\ f_pc[i] = "done"
                           /\ a_results[i] = f_res[i]
                           /\ a_results[i] = AioValue(resp[i])
    /\ SFetchReturned =>
         /\ Len(s_results) = N
         /\ \A i \in Idx : s_results[i] = ReqValue(resp[i])

C1_Witness ==
    /\ AFetchReturned /\ SFetchReturned
    /\ N >= 2
    /\ OutOfOrder(f_order)
    /\ a_results[1] # a_results[2]
    /\ s_results = a_results

\* C2: no failure of a single fetch (status other than 200, connection
\* failure, timeout, malformed body) leaves fetch_data as an exception:
\* no fetch task ends raised, and no exception of the Fetch Stage ends
\* either main.
C2_FetchFailuresAbsorbed ==
    /\ \A i \in DOMAIN f_pc : f_pc[i] # "raised"
    /\ ~(a_pc \in {"raised", "failed"} /\ a_exc # "TypeError")
    /\ ~(s_pc = "raised" /\ s_exc # "TypeError")

\* C3: in the concurrent Fetch Stage the failure of one item never cancels
\* the fetch of another: no fetch task is cancelled, and once the program
\* is over every fetch task has reached its own outcome.
C3_FetchesIndependent ==
    /\ \A j \in DOMAIN f_pc : f_pc[j] # "cancelled"
    /\ a_pc \in {"done", "failed"} => \A j \in DOMAIN f_pc : f_pc[j] \in {"done", "raised"}

\* C4: stage barrier: while a process task exists (dispatched, sleeping or
\* finished), every fetch of the batch has its outcome; in the sequential
\* variant process_data is not called before the results list is complete.
C4_StageBarrier ==
    /\ p_pc # <<>> => \A j \in Idx : f_pc[j] = "done"
    /\ (\E i \in DOMAIN p_pc : p_pc[i] \in {"sleep", "done", "raised"})
         => /\ a_pc \notin {"start", "gather_fetch", "dispatch"}
            /\ \A j \in Idx : f_pc[j] = "done"
    /\ (s_pc = "sleep" \/ s_processed # <<>>) => Len(s_results) = N

C4_Witness ==
    /\ N >= 2
    /\ \E i \in DOMAIN p_pc : p_pc[i] = "sleep"
    /\ \E i \in DOMAIN p_pc : p_pc[i] = "ready"
    /\ \E i \in Idx : a_results[i] = PyNone

\* C5: after a completed run the batch, the outcomes and the processed
\* results have the same length and processed result i is the result of
\* processing outcome i, in either variant and whatever the order in which
\* the process tasks completed.
C5_ProcessedInBatchOrder ==
    /\ a_pc = "done" =>
         /\ Len(a_results) = N /\ Len(a_processed) = N
         /\ \A i \in Idx : a_processed[i] = Processed(a_results[i])
    /\ s_pc = "done" =>
         /\ Len(s_results) = N /\ Len(s_processed) = N
         /\ \A i \in Idx : s_processed[i] = Processed(s_results[i])

C5_Witness ==
    /\ a_pc = "done" /\ s_pc = "done"
    /\ N >= 2
    /\ OutOfOrder(p_order)
    /\ a_processed[1] # a_processed[2]
    /\ a_processed[1] > 0

\* C6: process_data returns the size of a non-empty payload after the
\* delay, and 0 without the delay for None or an empty payload: a process
\* call sleeps only on a non-empty value, every finished call has returned
\* the expected number, and no call ends otherwise.
C6_ProcessData ==
    /\ \A i \in DOMAIN p_pc :
         /\ p_pc[i] = "sleep" => Truthy(a_results[i])
         /\ p_pc[i] = "done" => p_res[i] = Processed(a_results[i])
         /\ p_pc[i] # "raised"
    /\ s_pc = "sleep" => Truthy(s_results[s_i + 1])
    /\ \A i \in 1..Len(s_processed) : s_processed[i] = Processed(s_results[i])
    /\ ~(s_pc = "raised" /\ s_exc = "TypeError")

\* both programs are over
BothOver == a_pc \in {"done", "failed"} /\ s_pc \in {"done", "raised"}

\* C7: on the same batch and the same responses both variants complete and
\* their outcome lists and processed lists are equal.
C7_VariantsAgree ==
    BothOver =>
      /\ a_pc = "done" /\ s_pc = "done"
      /\ a_results = s_results
      /\ a_processed = s_processed

\* every 200 response of the batch carries a body that has a size (an
\* object, array or string) or is null or malformed
SizedBodies ==
    \A i \in Idx :
      resp[i].kind = "http" /\ resp[i].status = 200
        => resp[i].body.t \in {"object", "array", "string", "null", "malformed"}

\* the last line printed is the total time, after one fetched line and one
\* processed line per identifier
Reported(out) ==
    /\ Len(out) >= 2 * N + 3
    /\ out[Len(out)].tag = "Total time taken"
    /\ \A i \in Idx : /\ \E k \in 1..Len(out) : out[k].tag = "URL" /\ out[k].i = i
                      /\ \E k \in 1..Len(out) : out[k].tag = "URL Length" /\ out[k].i = i

\* C8: whatever mix of fetch successes and failures the batch holds (its
\* bodies having a size), neither main ends through an exception, and a
\* main that is over has printed the whole report.
C8_NoFatalPath ==
    SizedBodies =>
      /\ a_pc \notin {"raised", "failed"}
      /\ s_pc # "raised"
      /\ a_pc = "done" => Reported(a_out)
      /\ s_pc = "done" => Reported(s_out)

ScenarioOutcomes(k) ==
    [i \in 1..NUrls |->
        IF i = k THEN PyNone
        ELSE PyVal("dict", ScenarioSizes[IF i < k THEN i ELSE i - 1])]

ScenarioProcessed(k) ==
    [i \in 1..NUrls |->
        IF i = k THEN 0 ELSE ScenarioSizes[IF i < k THEN i ELSE i - 1]]

\* the diagnostic lines among the printed lines
Diagnostics(out) ==
    SelectSeq(out, LAMBDA l : l.tag \in {"Error", "Client error", "Request error"})

\* C9: in the scenario of four 200 responses with bodies of sizes 10, 20,
\* 0, 5 and one 404 at position k, the run does not fail, the outcomes are
\* the four decoded bodies in batch order with None at k, the one
\* diagnostic is "Error: 404" for k, and the processed results are the
\* four sizes with 0 at k, whatever the completion order.
C9_Scenario404 ==
    \A k \in 1..NUrls :
      resp = Scenario404(k) =>
        /\ a_pc \notin {"raised", "failed"}
        /\ AFetchReturned =>
             /\ a_results = ScenarioOutcomes(k)
             /\ Diagnostics(a_out) = <<Line("Error", k, 404, "", NoValue)>>
        /\ a_pc \in {"report", "done"} => a_processed = ScenarioProcessed(k)
        /\ s_pc # "raised"
        /\ SFetchReturned =>
             /\ s_results = ScenarioOutcomes(k)
             /\ Diagnostics(s_out) = <<Line("Error", k, 404, "", NoValue)>>
        /\ s_pc = "done" => s_processed = ScenarioProcessed(k)

C9_Witness ==
    /\ resp = Scenario404(NUrls)
    /\ a_pc = "done" /\ s_pc = "done"
    /\ OutOfOrder(f_order) /\ OutOfOrder(p_order)
    /\ a_processed = <<10, 20, 0, 5, 0>>
    /\ s_processed = <<10, 20, 0, 5, 0>>
    /\ a_results[NUrls] = PyNone /\ a_results[3] = PyVal("dict", 0)

\* C10: when all five identifiers time out, neither main fails, the Fetch
\* Stage returns five None outcomes, the processed results are five zeros
\* and the report ends with the total time.
C10_AllTimeout ==
    resp = AllTimeout =>
      /\ a_pc \notin {"raised", "failed"}
      /\ AFetchReturned => a_results = [i \in 1..NUrls |-> PyNone]
      /\ a_pc = "done" => a_processed = [i \in 1..NUrls |-> 0] /\ Reported(a_out)
      /\ s_pc # "raised"
      /\ SFetchReturned => s_results = [i \in 1..NUrls |-> PyNone]
      /\ s_pc = "done" => s_processed = [i \in 1..NUrls |-> 0] /\ Reported(s_out)

\* C11: the outcome list of the concurrent Fetch Stage is a function of
\* the responses alone: whenever the stage returns, after whatever
\* interleaving and completion order, its list is the list of the values
\* of the responses, so any two runs on the same responses return lists of
\* identical content.
C11_FetchDeterministic ==
    AFetchReturned => a_results = [i \in 1..N |-> AioValue(resp[i])]

C11_Witness ==
    /\ AFetchReturned
    /\ N = 2
    /\ f_order = <<2, 1>>
    /\ resp[1] # resp[2]
    /\ AioValue(resp[1]) # AioValue(resp[2])

\* a response whose own fetch and processing cannot raise: the fetch ends
\* in a returned value, and that value is falsy or has a length
SelfContained(r) ==
    /\ \A e \in AioGetRaises(r) : IsClientError(e)
    /\ r.kind = "http" /\ r.status = 200 => \A e \in AioJsonRaises(r) : IsClientError(e)
    /\ Truthy(AioValue(r)) => HasLen(AioValue(r))
    /\ Truthy(ReqValue(r)) => HasLen(ReqValue(r))

\* C12: the ProcessedResult of item j depends on no other item: for a
\* response at j that cannot raise by itself, a program that is over has
\* given j the processed result of j's own response, whatever the other
\* items' responses (successes with a sized body, or failures) were.
C12_ProcessedIndependent ==
    \A j \in Idx :
      SizedBodies /\ SelfContained(resp[j]) =>
        /\ a_pc \in {"done", "failed"} =>
             /\ j \in DOMAIN a_processed
             /\ a_processed[j] = Processed(AioValue(resp[j]))
        /\ s_pc \in {"done", "raised"} =>
             /\ j \in DOMAIN s_processed
             /\ s_processed[j] = Processed(ReqValue(resp[j]))

\* item i has a diagnostic line among the printed lines
HasDiagnostic(out, i) ==
    \E k \in 1..Len(out) :
      out[k].i = i /\ out[k].tag \in {"Error", "Client error", "Request error"}

\* C13: a response with a status other than 200 yields a failure outcome
\* whose reason is the status code, and the outcome itself tells a failure
\* from a success: an outcome is the failure value exactly when its item
\* failed (and so had its reason printed).
C13_FailureDistinguishable ==
    /\ \A i \in DOMAIN f_pc :
         f_pc[i] = "done" =>
           /\ resp[i].kind = "http" /\ resp[i].status # 200 =>
                /\ f_res[i] = PyNone
                /\ \E k \in 1..Len(a_out) :
                     a_out[k] = Line("Error", i, resp[i].status, "", NoValue)
           /\ f_res[i] = PyNone <=> HasDiagnostic(a_out, i)
    /\ \A i \in 1..Len(s_results) :
         /\ resp[i].kind = "http" /\ resp[i].status # 200 =>
              /\ s_results[i] = PyNone
              /\ \E k \in 1..Len(s_out) :
                   s_out[k] = Line("Error", i, resp[i].status, "", NoValue)
         /\ s_results[i] = PyNone <=> HasDiagnostic(s_out, i)

\* C14: the batch is never changed; the outcome of a fetch task is never
\* changed once the task is done; the outcome list is empty until the
\* Fetch Stage returns it and is never changed afterwards, neither by
\* the Process Stage nor by the report; the sequential list only grows by
\* appends during its Fetch Stage.
C14_OutcomesFrozen ==
    [][ /\ resp' = resp
        /\ \A i \in DOMAIN f_pc :
             f_pc[i] = "done" => f_pc'[i] = "done" /\ f_res'[i] = f_res[i]
        /\ ~AFetchReturned => a_results = <<>>
        /\ AFetchReturned => a_results' = a_results
        /\ \A i \in 1..Len(s_results) :
             i <= Len(s_results') /\ s_results'[i] = s_results[i]
        /\ SFetchReturned => s_results' = s_results ]_vars

C14_Witness ==
    /\ a_pc = "done" /\ s_pc = "done"
    /\ N >= 2
    /\ \E i \in Idx : Truthy(a_results[i])
    /\ \E i \in Idx : a_results[i] = PyNone
    /\ Len(a_out) > 2 * N /\ Len(s_out) > 2 * N

\* C15: the concurrent Fetch Stage gives control back to main, with a
\* result or otherwise, only when every item has its outcome: while the
\* request of some item is in flight main is still inside the first
\* gather, and results is empty as long as main is there.
C15_FetchStageJoinsAll ==
    /\ (\E i \in Idx : f_pc[i] \in {"get", "json"}) => a_pc = "gather_fetch"
    /\ a_pc \in {"start", "gather_fetch"} => a_results = <<>>

\* C16: in the sequential baseline the fetch of item s_i + 1 is in
\* progress only when exactly the s_i items before it have their outcome
\* and nothing has been processed, and the processing of outcome s_i + 1
\* is in progress only when exactly the s_i outcomes before it have their
\* ProcessedResult and the Fetch Stage is over.
C16_SequentialOneAtATime ==
    /\ s_pc \in {"fetch_loop", "get"} => Len(s_results) = s_i /\ s_processed = <<>>
    /\ s_pc = "get" => s_i < N
    /\ s_pc \in {"process_loop", "sleep"} =>
         Len(s_processed) = s_i /\ Len(s_results) = N
    /\ s_pc = "sleep" => s_i < N /\ s_time = Cardinality({k \in 1..s_i : Truthy(s_results[k])})

C16_Witness ==
    /\ s_pc = "sleep"
    /\ s_i >= 1
    /\ s_time >= 1
    /\ Len(s_processed) = s_i

\* the number of outcomes that make process_data sleep
NonEmptyCount(results) == Cardinality({k \in 1..Len(results) : Truthy(results[k])})

\* C17: in delay periods, the concurrent Process Stage is over after one
\* period when some outcome is non-empty (after none otherwise), however
\* many there are; the sequential one takes one period per non-empty
\* outcome, so N periods for N non-empty outcomes.
C17_ProcessStageLatency ==
    /\ a_pc \in {"report", "done"} =>
         a_time = IF NonEmptyCount(a_results) > 0 THEN Delay ELSE 0
    /\ s_pc = "done" => s_time = NonEmptyCount(s_results) * Delay
    /\ resp = Todos =>
         /\ a_pc \in {"report", "done"} => a_time = Delay
         /\ s_pc = "done" => s_time = NUrls * Delay

C17_Witness ==
    /\ resp = Todos
    /\ a_pc = "done" /\ s_pc = "done"
    /\ NonEmptyCount(a_results) = NUrls
    /\ a_time = 1
    /\ s_time = 5

DiagnosticTags == {"Error", "Client error", "Request error"}

\* the number of diagnostic lines printed for item i
DiagCount(out, i) ==
    Cardinality({k \in 1..Len(out) : out[k].i = i /\ out[k].tag \in DiagnosticTags})

\* the diagnostic lines are the first lines printed
DiagnosticsFirst(out) ==
    \A k \in 1..Len(out) :
      out[k].tag \in DiagnosticTags => k <= Len(Diagnostics(out))

\* the fetch of the response ends in a failure when it ends in an outcome
AioFailed(r) ==
    ~(r.kind = "http" /\ r.status = 200 /\ r.ctype = "application/json"
      /\ r.body # Malformed)

ReqFailed(r) == ~(r.kind = "http" /\ r.status = 200 /\ r.body # Malformed)

\* C18: an item has no diagnostic line before its fetch has ended; once it
\* has its outcome it has exactly one line if the outcome is a failure,
\* carrying the item and the status or the error, and none if it is a
\* success; so all of them are printed when the Fetch Stage returns, and
\* they precede every line of the report.
C18_OneDiagnosticPerFailure ==
    /\ \A i \in DOMAIN f_pc :
         /\ f_pc[i] # "done" => DiagCount(a_out, i) = 0
         /\ f_pc[i] = "done" =>
              DiagCount(a_out, i) = IF AioFailed(resp[i]) THEN 1 ELSE 0
    /\ \A k \in 1..Len(a_out) :
         /\ a_out[k].tag = "Error" =>
              a_out[k].i \in Idx /\ a_out[k].n = resp[a_out[k].i].status
         /\ a_out[k].tag = "Client error" =>
              /\ a_out[k].i \in Idx
              /\ a_out[k].txt \in AioGetRaises(resp[a_out[k].i])
                                    \cup AioJsonRaises(resp[a_out[k].i])
    /\ DiagnosticsFirst(a_out)
    /\ \A i \in Idx :
         DiagCount(s_out, i) =
           IF i <= Len(s_results) /\ ReqFailed(resp[i]) THEN 1 ELSE 0
    /\ \A k \in 1..Len(s_out) :
         /\ s_out[k].tag = "Error" =>
              s_out[k].i \in Idx /\ s_out[k].n = resp[s_out[k].i].status
         /\ s_out[k].tag = "Request error" =>
              /\ s_out[k].i \in Idx
              /\ s_out[k].txt \in ReqGetRaises(resp[s_out[k].i])
                                    \cup ReqJsonRaises(resp[s_out[k].i])
    /\ DiagnosticsFirst(s_out)

C18_Witness ==
    /\ a_pc = "done" /\ s_pc = "done"
    /\ N = 2
    /\ Len(Diagnostics(a_out)) = 1
    /\ Len(Diagnostics(s_out)) = 1
    /\ \E i \in Idx : Truthy(a_results[i])
    /\ Len(a_out) = 2 * N + 4

\* C19: the shared client session is open while the request of any fetch
\* task is in flight, on every path, and it is closed by the time the
\* process tasks are created.
C19_SessionOutlivesFetches ==
    /\ (\E i \in DOMAIN f_pc : f_pc[i] \in {"get", "json"}) => session = "open"
    /\ a_pc = "gather_fetch" => session = "open"
    /\ p_pc # <<>> => session = "closed"

\* C20: the Process Stage never raises: whatever value fetch_data returned
\* (None, or the decoded object, array, string, number, boolean or null),
\* no process_data call ends in an exception, no TypeError ends either
\* main, and every finished call has returned an integer.
C20_ProcessNeverRaises ==
    /\ \A i \in DOMAIN p_pc :
         /\ p_pc[i] # "raised"
         /\ p_pc[i] = "done" => p_res[i] \in Nat
    /\ a_exc # "TypeError"
    /\ s_exc # "TypeError"
    /\ \A i \in 1..Len(s_processed) : s_processed[i] \in Nat

====
